---- MODULE Spec2Model ----
(***************************************************************************)
(* Route planning through memory waypoints and live navigation tracking.   *)
(*                                                                         *)
(* The repository holds two implementations of the navigation tracker with *)
(* independent state:                                                      *)
(*   - the React context  src/src/contexts/NavigationContext.tsx           *)
(*     (state navigationState, handlers closed over the rendered state),   *)
(*   - the Redux slice    src/src/store/slices/navigationSlice.ts          *)
(*     (state navigation, thunks and reducers).                            *)
(* SpecContext is the state machine of the context.  The store is followed *)
(* in SpecSliceHistory, SpecSliceRouting, SpecSliceTracking and            *)
(* SpecSliceStarting, which share the constructed store and differ in the  *)
(* operations dispatched.  SpecPlanner applies the planner's functions of  *)
(* the context to inputs drawn from bounded sets, SpecAlternatives does so *)
(* for generateAlternativeRoutes.  SpecDelivery is a session whose stream  *)
(* reports the end of each step, SpecLingering one whose stream reports    *)
(* any location any number of times.  SpecMemories is the state machine of *)
(* the memories slice, src/src/store/slices/memoriesSlice.ts.              *)
(*                                                                         *)
(* Numbers.  Coordinates are positions in whole metres on a local tangent  *)
(* plane, <<x, y>> (x along longitude, y along latitude); the haversine    *)
(* distance is the planar distance rounded down to whole metres.  Values   *)
(* the code keeps as fractions are kept exactly, scaled:                   *)
(*   detourTime         minutes * MinuteScale,                             *)
(*   travelledDistance  metres  * 10 (the code adds tenths of a step),     *)
(*   durations          <<numerator, denominator>> seconds.                *)
(***************************************************************************)
EXTENDS Integers, Sequences, FiniteSets, TLC

(***************************************************************************)
(* Bounds of the model.                                                    *)
(***************************************************************************)
MaxMemories == 2        \* memories the memory store holds
MaxStepIndex == 2       \* currentStepIndex is followed up to this value
MaxTravelled == 6000    \* travelledDistance (x10) is followed up to this value
MaxLingered == 66000    \* travelledDistance (x10) followed in SpecLingering
MaxUnrendered == 2      \* handler calls between two renders
MaxTime == 1            \* values of the clock read by start

(***************************************************************************)
(* Optional values: null is the empty sequence, a value v is <<v>>.        *)
(***************************************************************************)
Null == <<>>
Some(v) == <<v>>
IsNull(x) == x = <<>>
Val(x) == x[1]

Min(a, b) == IF a <= b THEN a ELSE b
Max(a, b) == IF a >= b THEN a ELSE b

RECURSIVE ISqrtBetween(_, _, _)
ISqrtBetween(n, lo, hi) ==
  IF lo = hi THEN lo
  ELSE LET mid == (lo + hi + 1) \div 2
       IN IF mid * mid <= n THEN ISqrtBetween(n, mid, hi)
                            ELSE ISqrtBetween(n, lo, mid - 1)

ISqrt(n) == ISqrtBetween(n, 0, 46340)

(***************************************************************************)
(* Fractions <<num, den>>, den > 0.                                        *)
(***************************************************************************)
Rat(n, d) == <<n, d>>
RatAdd(a, b) ==
  IF a[2] = b[2] THEN <<a[1] + b[1], a[2]>>
  ELSE <<a[1] * b[2] + b[1] * a[2], a[2] * b[2]>>
RatEq(a, b) == a[1] * b[2] = b[1] * a[2]

(***************************************************************************)
(* GeoMath: LocationProvider.calculateDistance(from, to).                  *)
(***************************************************************************)
\* a distance that counts the way east and north only
calculateDistanceEastward(from, to) ==
  ISqrt(Max(to[2] - from[2], 0) * Max(to[2] - from[2], 0)
        + Max(to[1] - from[1], 0) * Max(to[1] - from[1], 0))

calculateDistance(from, to) ==
  LET dLat == to[2] - from[2]
      dLon == to[1] - from[1]
  IN ISqrt(dLat * dLat + dLon * dLon)

\* calculateDistance(lat1, lon1, lat2, lon2) of the slice
calculateDistanceLatLon(lat1, lon1, lat2, lon2) ==
  LET dLat == lat2 - lat1
      dLon == lon2 - lon1
  IN ISqrt(dLat * dLat + dLon * dLon)

Lat(p) == p[2]
Lon(p) == p[1]

(***************************************************************************)
(* TransportModel: getBaseSpeedForMode, in tenths of a metre per second.   *)
(***************************************************************************)
getBaseSpeedForMode(mode) ==
  CASE mode = "walking" -> 14
    [] mode = "bicycling" -> 42
    [] mode = "transit" -> 83
    [] OTHER -> 139

\* distance / baseSpeed, in seconds
DurationOf(distance, baseSpeed) == Rat(distance * 10, baseSpeed)

(***************************************************************************)
(* The memory store (useMemory): an immutable input of the planner.        *)
(* A Memory is [id, location, importance].                                 *)
(***************************************************************************)
AllMemories ==
  << [id |-> "m1", location |-> <<2000, 0>>,    importance |-> 2],
     [id |-> "m2", location |-> <<3000, 4000>>, importance |-> 5],
     [id |-> "m3", location |-> <<4000, 300>>,  importance |-> 5],
     [id |-> "m4", location |-> <<1000, 0>>,    importance |-> 1],
     [id |-> "m5", location |-> <<5000, 0>>,    importance |-> 2],
     [id |-> "m6", location |-> <<4400, 240>>,  importance |-> 3] >>

MemoryLists == { SubSeq(AllMemories, 1, k) : k \in 0..Min(MaxMemories, Len(AllMemories)) }

(***************************************************************************)
(* WaypointSelector (context): findPotentialMemoryWaypoints.               *)
(***************************************************************************)
averageSpeed == 50
\* detourTime = (extraDistance / 1000) / (averageSpeed / 60) minutes, kept
\* as detourTime * MinuteScale = extraDistance * 60.
MinuteScale == 1000 * averageSpeed

MemoryWaypointOf(origin, destination, memory, index) ==
  LET directDistance == calculateDistance(origin, destination)
      memoryCoord == memory.location
      distanceFromOrigin == calculateDistance(origin, memoryCoord)
      distanceFromDestination == calculateDistance(memoryCoord, destination)
      totalDistanceViaMemory == distanceFromOrigin + distanceFromDestination
      extraDistance == totalDistanceViaMemory - directDistance
      detourTimeMinutes == extraDistance * 60
  IN [memory |-> memory, distanceFromRoute |-> extraDistance,
      detourTime |-> detourTimeMinutes, waypointIndex |-> index]

\* the detour, in minutes times MinuteScale, of passing location between
\* origin and destination
DetourTimeOf(origin, destination, location) ==
  MemoryWaypointOf(origin, destination, [location |-> location], 0).detourTime

\* a filter that lets every memory pass
AnyDetour(w, maxDetourMinutes) == TRUE

WithinDetourBudget(w, maxDetourMinutes) ==
  w.detourTime <= maxDetourMinutes * MinuteScale

findPotentialMemoryWaypoints(origin, destination, mems, maxDetourMinutes) ==
  LET all == [i \in 1..Len(mems) |->
                MemoryWaypointOf(origin, destination, mems[i], i - 1)]
  IN SelectSeq(all, LAMBDA w : WithinDetourBudget(w, maxDetourMinutes))

(***************************************************************************)
(* sortWaypointsByPriority: Array.prototype.sort is stable; the comparator *)
(* is scoreB - scoreA with score = importance * 10 - detourTime * 5        *)
(* (kept as score * MinuteScale).                                          *)
(***************************************************************************)
PriorityScore(w) == w.memory.importance * 10 * MinuteScale - w.detourTime * 5

InsertByPriority(sorted, w) ==
  LET k == Cardinality({i \in 1..Len(sorted) : PriorityScore(sorted[i]) >= PriorityScore(w)})
  IN SubSeq(sorted, 1, k) \o <<w>> \o SubSeq(sorted, k + 1, Len(sorted))

RECURSIVE SortPrefix(_, _)
SortPrefix(waypoints, n) ==
  IF n = 0 THEN <<>>
  ELSE InsertByPriority(SortPrefix(waypoints, n - 1), waypoints[n])

sortWaypointsByPriority(waypoints) == SortPrefix(waypoints, Len(waypoints))

\* a slice that keeps every element
SliceNone(s, n) == s

\* Array.prototype.slice(0, n) for n >= 0
SliceTo(s, n) == SubSeq(s, 1, Min(n, Len(s)))

(***************************************************************************)
(* RouteSequencer: orderWaypointsByGreedyPath.                             *)
(***************************************************************************)
\* a choice that takes the first unvisited waypoint
FirstIndex(currentPoint, unvisited) == 1

\* index of the closest unvisited waypoint: the first one whose distance is
\* strictly below every earlier one (closestDistance starts at Infinity)
ClosestIndex(currentPoint, unvisited) ==
  CHOOSE i \in 1..Len(unvisited) :
    /\ \A j \in 1..Len(unvisited) :
         calculateDistance(currentPoint, unvisited[i].memory.location)
           <= calculateDistance(currentPoint, unvisited[j].memory.location)
    /\ \A j \in 1..(i - 1) :
         calculateDistance(currentPoint, unvisited[j].memory.location)
           > calculateDistance(currentPoint, unvisited[i].memory.location)

\* splice that takes out the first element whatever the index
RemoveFirst(s, i) == Tail(s)

RemoveAt(s, i) == SubSeq(s, 1, i - 1) \o SubSeq(s, i + 1, Len(s))

RECURSIVE GreedyVisit(_, _, _)
GreedyVisit(currentPoint, unvisited, result) ==
  IF Len(unvisited) = 0 THEN result
  ELSE LET closestIndex == ClosestIndex(currentPoint, unvisited)
           nextWaypoint == unvisited[closestIndex]
       IN GreedyVisit(nextWaypoint.memory.location,
                      RemoveAt(unvisited, closestIndex),
                      Append(result, nextWaypoint))

orderWaypointsByGreedyPath(start, end, waypoints) ==
  IF Len(waypoints) <= 1 THEN waypoints
  ELSE LET result == GreedyVisit(start, waypoints, <<>>)
       IN [index \in 1..Len(result) |->
             [result[index] EXCEPT !.waypointIndex = index - 1]]

(***************************************************************************)
(* RouteAssembler: createSimulatedSteps, generateRouteWithWaypoints.       *)
(* A step's instruction text is presentation only and is left out.         *)
(***************************************************************************)
\* a step that covers half of the leg
createHalfStep(start, end, distance, duration) ==
  << [distance |-> distance \div 2, duration |-> duration,
      startLocation |-> start, endLocation |-> end] >>

createSimulatedSteps(start, end, distance, duration) ==
  << [distance |-> distance, duration |-> duration,
      startLocation |-> start, endLocation |-> end] >>

LegBetween(start, end, baseSpeed) ==
  LET legDistance == calculateDistance(start, end)
      legDuration == DurationOf(legDistance, baseSpeed)
  IN [distance |-> legDistance, duration |-> legDuration,
      startLocation |-> start, endLocation |-> end,
      steps |-> createSimulatedSteps(start, end, legDistance, legDuration)]

\* the points the legs run between: origin, the ordered waypoints, destination
RoutePoints(origin, destination, orderedWaypoints) ==
  <<origin>> \o [i \in 1..Len(orderedWaypoints) |-> orderedWaypoints[i].memory.location]
             \o <<destination>>

\* a total that leaves out the final leg
SumDistanceBeforeFinalLeg(legs, n) ==
  LET sum[k \in 0..Len(legs)] == IF k = 0 THEN 0 ELSE sum[k - 1] + legs[k].distance
  IN sum[Max(n - 1, 0)]

RECURSIVE SumDistance(_, _)
SumDistance(legs, n) ==
  IF n = 0 THEN 0 ELSE SumDistance(legs, n - 1) + legs[n].distance

RECURSIVE SumDuration(_, _)
SumDuration(legs, n) ==
  IF n = 0 THEN Rat(0, 1) ELSE RatAdd(SumDuration(legs, n - 1), legs[n].duration)

generateRouteWithWaypoints(origin, destination, waypoints, transportMode) ==
  LET directDistance == calculateDistance(origin, destination)
      baseSpeed == getBaseSpeedForMode(transportMode)
      directDuration == DurationOf(directDistance, baseSpeed)
  IN IF Len(waypoints) = 0
     THEN [distance |-> directDistance, duration |-> directDuration,
           legs |-> << [distance |-> directDistance, duration |-> directDuration,
                        startLocation |-> origin, endLocation |-> destination,
                        steps |-> << [distance |-> directDistance,
                                      duration |-> directDuration,
                                      startLocation |-> origin,
                                      endLocation |-> destination] >>] >>,
           memoryWaypoints |-> <<>>]
     ELSE LET orderedWaypoints == orderWaypointsByGreedyPath(origin, destination, waypoints)
              points == RoutePoints(origin, destination, orderedWaypoints)
              legs == [i \in 1..(Len(points) - 1) |->
                         LegBetween(points[i], points[i + 1], baseSpeed)]
          IN [distance |-> SumDistance(legs, Len(legs)),
              duration |-> SumDuration(legs, Len(legs)),
              legs |-> legs,
              memoryWaypoints |-> orderedWaypoints]

(***************************************************************************)
(* Alternative routes: shuffleAndSelectWaypoints draws a random order and  *)
(* a random count; every outcome of the draw is a possible selection.      *)
(***************************************************************************)
\* count = max(1, floor(random * (n * 0.4) + n * 0.5)), random in [0, 1)
SelectCounts(n) == Max(1, (n * 5) \div 10) .. Max(1, (n * 9 - 1) \div 10)

InjectiveSeqs(n, c) ==
  {s \in [1..c -> 1..n] : \A i, j \in 1..c : i # j => s[i] # s[j]}

\* a selection that takes the first waypoint twice
selectFirstTwice(waypoints) == {<<waypoints[1], waypoints[1]>>}

shuffleAndSelectWaypoints(waypoints) ==
  IF Len(waypoints) <= 2 THEN {waypoints}
  ELSE UNION { {[i \in 1..c |-> waypoints[s[i]]] : s \in InjectiveSeqs(Len(waypoints), c)} :
                 c \in SelectCounts(Len(waypoints)) }

generateAlternativeRoutes(origin, destination, availableWaypoints, transportMode, numAlternatives) ==
  IF Len(availableWaypoints) <= 1 THEN {<<>>}
  ELSE LET routes == {generateRouteWithWaypoints(origin, destination, sel, transportMode) :
                        sel \in shuffleAndSelectWaypoints(availableWaypoints)}
       IN [1..numAlternatives -> routes]

(***************************************************************************)
(* NavigationTracker helpers (context): findUpcomingMemory, findCurrentStep*)
(***************************************************************************)
\* the first leg i (0-based) with currentStepIndex < steps counted so far;
\* currentLegIndex stays 0 when the loop never breaks
RECURSIVE LegOfStep(_, _, _, _)
LegOfStep(legs, i, stepCount, currentStepIndex) ==
  IF i > Len(legs) THEN 0
  ELSE LET count == stepCount + Len(legs[i].steps)
       IN IF currentStepIndex < count THEN i - 1
          ELSE LegOfStep(legs, i + 1, count, currentStepIndex)

findUpcomingMemory(route, currentStepIndex) ==
  IF Len(route.memoryWaypoints) = 0 THEN Null
  ELSE LET currentLegIndex == LegOfStep(route.legs, 1, 0, currentStepIndex)
           ahead == SelectSeq(route.memoryWaypoints,
                              LAMBDA w : w.waypointIndex >= currentLegIndex)
       IN IF Len(ahead) = 0 THEN Null ELSE Some(ahead[1].memory)

\* The nested search loop of findCurrentStep, statement by statement.  The
\* state of the loop is [stepCount, currentLegIndex, legStepIndex, found];
\* indices are 0-based as in the code.
RECURSIVE ScanSteps(_, _, _, _, _)
ScanSteps(leg, i, j, st, currentStepIndex) ==
  IF j >= Len(leg.steps) THEN st
  ELSE IF st.stepCount = currentStepIndex
       THEN [st EXCEPT !.currentLegIndex = i, !.legStepIndex = j]      \* break
       ELSE ScanSteps(leg, i, j + 1, [st EXCEPT !.stepCount = @ + 1], currentStepIndex)

RECURSIVE ScanLegs(_, _, _, _)
ScanLegs(legs, i, st, currentStepIndex) ==
  IF i >= Len(legs) THEN st
  ELSE LET after == ScanSteps(legs[i + 1], i, 0, st, currentStepIndex)
       IN IF after.stepCount = currentStepIndex THEN after             \* break
          ELSE ScanLegs(legs, i + 1, after, currentStepIndex)

ArrivalThreshold == 20

findCurrentStep(route, currentStepIndex, currentLocation) ==
  LET at == ScanLegs(route.legs, 0,
                     [stepCount |-> 0, currentLegIndex |-> 0, legStepIndex |-> 0],
                     currentStepIndex)
      currentLeg == route.legs[at.currentLegIndex + 1]
      currentStep == currentLeg.steps[at.legStepIndex + 1]
      distanceToStepEnd == calculateDistance(currentLocation, currentStep.endLocation)
  IN IF distanceToStepEnd < ArrivalThreshold
     THEN [newStepIndex |-> currentStepIndex + 1,
           distanceTravelled |-> distanceToStepEnd * 10]
     ELSE [newStepIndex |-> currentStepIndex,
           distanceTravelled |-> currentStep.distance]      \* distance * 0.1, x10

\* the flattened step sequence of a route
RECURSIVE FlattenSteps(_, _)
FlattenSteps(legs, n) ==
  IF n = 0 THEN <<>> ELSE FlattenSteps(legs, n - 1) \o legs[n].steps

TotalSteps(route) == Len(FlattenSteps(route.legs, Len(route.legs)))


(***************************************************************************)
(* State of the context (NavigationProvider).                              *)
(*   navigationState  the committed React state of NavigationProvider      *)
(*   rendered         what the handlers of the last render are closed over:*)
(*                    the fields of that render's navigationState that a   *)
(*                    handler reads                                        *)
(*   unrendered       state updates queued since the last render           *)
(*   memories         the list useMemory() provides                        *)
(*   userProfile      the navigation preferences useUser() provides        *)
(* State of the slice (store.navigation).                                  *)
(*   navigation       the slice state                                      *)
(*   pending          the route computations waiting for their timer,      *)
(*                    oldest first, each with what it read from the store  *)
(*   storeMemories    state.memories.memories, read by the route thunk     *)
(*   clock            Date.now(), read when a route is built               *)
(* State of the memories slice (store.memories).                           *)
(*   memoriesState    the slice state: the memories, the filtered list,    *)
(*                    the active filters, the memory shown and isLoading   *)
(* Both.                                                                   *)
(*   lastCall         the last call made and how it ended: "returned" or   *)
(*                    the error it failed with                             *)
(* The planner's functions on their own (SpecPlanner).                     *)
(*   planInput        the arguments the functions are applied to           *)
(*   planOutput       the function applied last and what it returned       *)
(***************************************************************************)
VARIABLES navigationState, rendered, unrendered, memories, userProfile,
          navigation, pending, storeMemories, clock, lastCall,
          planInput, planOutput, memoriesState

contextVars == <<navigationState, rendered, unrendered, memories, userProfile>>
sliceVars == <<navigation, pending, storeMemories, clock>>
plannerVars == <<planInput, planOutput>>
memoriesVars == <<memoriesState>>
vars == <<contextVars, sliceVars, lastCall, plannerVars, memoriesVars>>

defaultNavigationState ==
  [origin |-> Null, destination |-> Null, currentRoute |-> Null,
   alternativeRoutes |-> <<>>, activeNavigation |-> FALSE,
   currentStepIndex |-> 0, upcomingMemory |-> Null,
   distanceToNextMemory |-> Null, navigationStartTime |-> Null,
   estimatedArrivalTime |-> Null, travelledDistance |-> 0]

(***************************************************************************)
(* Inputs of the handlers.                                                 *)
(***************************************************************************)
Endpoints == { << <<0, 0>>, <<6000, 0>> >> }
UserProfiles ==
  { [navigationPreferences |-> [maxDetourTime |-> 10, transportationMode |-> "driving"]],
    [navigationPreferences |-> [maxDetourTime |-> 2, transportationMode |-> "walking"]] }
Modes == {p.navigationPreferences.transportationMode : p \in UserProfiles}
DetourBudgets == {p.navigationPreferences.maxDetourTime : p \in UserProfiles}
MemoryLimits == {1, 5}
RouteIndexes == -1..3
Times == 1..MaxTime
Locations ==
  {<<2000, 0>>, <<2010, 0>>, <<3000, 4000>>, <<6000, 0>>}

\* the fields of navigationState the handlers read from their closure
Closure(st) ==
  [origin |-> st.origin, destination |-> st.destination,
   currentRoute |-> st.currentRoute, alternativeRoutes |-> st.alternativeRoutes,
   activeNavigation |-> st.activeNavigation, currentStepIndex |-> st.currentStepIndex]

Call(op, outcome) == [op |-> op, outcome |-> outcome]

\* the slice before anything is dispatched
\* initialState of the navigation slice
initialState ==
  [currentLocation |-> Null, currentRoute |-> Null, alternativeRoutes |-> <<>>,
   activeNavigation |-> FALSE, currentStep |-> 0, upcomingMemory |-> Null,
   memoryDistanceRemaining |-> Null, distanceToDestination |-> Null,
   timeToDestination |-> Null,
   settings |-> [maxDetourTime |-> 10, maxMemoriesPerRoute |-> 5,
                 prioritizeImportantMemories |-> TRUE,
                 memoryNotificationsEnabled |-> TRUE,
                 voiceNavigationEnabled |-> TRUE,
                 notificationDistance |-> 300],
   recentRoutes |-> <<>>, isLoading |-> FALSE, error |-> Null]

\* store.memories as the slice is created (error is not followed)
memoriesInitialState ==
  [memories |-> <<>>, filteredMemories |-> <<>>, currentMemory |-> Null,
   isLoading |-> FALSE,
   activeFilters |-> [tags |-> <<>>,
                      dateRange |-> [from |-> Null, to |-> Null],
                      importance |-> Null]]

MemoriesIdle == memoriesState = memoriesInitialState

\* no function of the planner is applied on its own
PlannerIdle ==
  /\ planInput = Null
  /\ planOutput = Null

SliceIdle ==
  /\ navigation = initialState
  /\ pending = <<>>
  /\ storeMemories = <<>>
  /\ clock = 0

ContextInit ==
  /\ navigationState = defaultNavigationState
  /\ rendered = Closure(defaultNavigationState)
  /\ unrendered = 0
  /\ memories \in MemoryLists
  /\ userProfile \in UserProfiles
  /\ lastCall = Call("none", "returned")
  /\ SliceIdle
  /\ PlannerIdle
  /\ MemoriesIdle

\* setNavigationState(prevState => f(prevState)): the update is applied to
\* the committed state; the closures keep the rendered one until Render
Commit(next, op) ==
  /\ unrendered < MaxUnrendered
  /\ navigationState' = next
  /\ unrendered' = unrendered + 1
  /\ lastCall' = Call(op, "returned")
  /\ UNCHANGED <<rendered, memories, userProfile, sliceVars, plannerVars, memoriesVars>>

\* a call that ends without a state update and without an error
EndsQuietly(op, outcome) ==
  /\ lastCall' = Call(op, "returned")
  /\ UNCHANGED <<contextVars, sliceVars, plannerVars, memoriesVars>>

\* a call that ends without a state update
Ends(op, outcome) ==
  /\ lastCall' = Call(op, outcome)
  /\ UNCHANGED <<contextVars, sliceVars, plannerVars, memoriesVars>>

\* React renders the provider again: the handlers are closed over the new state
Render ==
  /\ unrendered > 0
  /\ rendered' = Closure(navigationState)
  /\ unrendered' = 0
  /\ UNCHANGED <<navigationState, memories, userProfile, sliceVars, lastCall, plannerVars, memoriesVars>>

setOriginAndDestination(origin, destination) ==
  Commit([navigationState EXCEPT !.origin = Some(origin),
                                 !.destination = Some(destination),
                                 !.currentRoute = Null,
                                 !.alternativeRoutes = <<>>,
                                 !.activeNavigation = FALSE],
         "setOriginAndDestination")

\* The synchronous body of calculateRoutes for given endpoints and memories:
\* the primary route and every pair of alternative routes the random
\* selection can produce.
PlanRoutes(origin, destination, mems, transportMode, maxDetourMinutes, maxMemories) ==
  LET potentialWaypoints ==
        findPotentialMemoryWaypoints(origin, destination, mems, maxDetourMinutes)
      sortedWaypoints == sortWaypointsByPriority(potentialWaypoints)
      selectedWaypoints == SliceTo(sortedWaypoints, maxMemories)
  IN [primaryRoute |->
        generateRouteWithWaypoints(origin, destination, selectedWaypoints, transportMode),
      alternativeRoutes |->
        generateAlternativeRoutes(origin, destination, sortedWaypoints, transportMode, 2)]

\* PlanRoutes over the inputs of the model, evaluated once
PlannedRoutes ==
  [e \in Endpoints, mems \in MemoryLists, m \in Modes, b \in DetourBudgets, k \in MemoryLimits |->
     PlanRoutes(e[1], e[2], mems, m, b, k)]

calculateRoutes(transportMode, maxDetourMinutes, maxMemories) ==
  IF IsNull(rendered.origin) \/ IsNull(rendered.destination)
  THEN Ends("calculateRoutes", "MissingOriginOrDestination")
  ELSE LET origin == Val(rendered.origin)
           destination == Val(rendered.destination)
           plan == PlannedRoutes[<<origin, destination>>, memories, transportMode,
                                 maxDetourMinutes, maxMemories]
       IN \E alternativeRoutes \in plan.alternativeRoutes :
            Commit([navigationState EXCEPT !.currentRoute = Some(plan.primaryRoute),
                                           !.alternativeRoutes = alternativeRoutes],
                   "calculateRoutes")

\* [currentRoute, ...alternativeRoutes].filter(Boolean)
SelectableRoutes(st) == st.currentRoute \o st.alternativeRoutes

\* the state startNavigation's update makes of prevState
StartedState(prevState, selectedRoute, now) ==
  LET eta == RatAdd(Rat(now, 1),
                    Rat(selectedRoute.duration[1] * 1000, selectedRoute.duration[2]))
  IN [prevState EXCEPT
        !.currentRoute = Some(selectedRoute),
        !.activeNavigation = TRUE,
        !.currentStepIndex = 0,
        !.navigationStartTime = Some(now),
        !.estimatedArrivalTime = Some(eta),
        !.travelledDistance = 0,
        !.upcomingMemory = findUpcomingMemory(selectedRoute, 0)]

\* routes[routeIndex] of a negative index is undefined: reading its duration
\* throws a TypeError
startNavigation(routeIndex, now) ==
  LET routes == SelectableRoutes(rendered)
  IN IF Len(routes) <= routeIndex
     THEN Ends("startNavigation", "InvalidRouteSelection")
     ELSE IF routeIndex < 0
     THEN Ends("startNavigation", "TypeError")
     ELSE Commit(StartedState(navigationState, routes[routeIndex + 1], now),
                 "startNavigation")

\* a stop that keeps the distance travelled
StoppedKeepingTravelled(st) ==
  [st EXCEPT !.activeNavigation = FALSE,
             !.currentStepIndex = 0,
             !.navigationStartTime = Null,
             !.estimatedArrivalTime = Null,
             !.upcomingMemory = Null,
             !.distanceToNextMemory = Null]

StoppedState(st) ==
  [st EXCEPT !.activeNavigation = FALSE,
             !.currentStepIndex = 0,
             !.navigationStartTime = Null,
             !.estimatedArrivalTime = Null,
             !.upcomingMemory = Null,
             !.distanceToNextMemory = Null,
             !.travelledDistance = 0]

stopNavigation == Commit(StoppedState(navigationState), "stopNavigation")

navigateToNextStep ==
  IF ~rendered.activeNavigation \/ IsNull(rendered.currentRoute)
  THEN Ends("navigateToNextStep", "returned")
  ELSE LET route == Val(rendered.currentRoute)
           totalSteps == TotalSteps(route)
           newStepIndex == rendered.currentStepIndex + 1
       IN IF newStepIndex >= totalSteps
          THEN Commit(StoppedState(navigationState), "navigateToNextStep")
          ELSE Commit([navigationState EXCEPT
                         !.currentStepIndex = newStepIndex,
                         !.upcomingMemory = findUpcomingMemory(route, newStepIndex)],
                      "navigateToNextStep")

\* property read obj.memory of a Memory object: Memory has no such property
MemoryOf(obj) == IF "memory" \in DOMAIN obj THEN Some(obj.memory) ELSE Null

\* the state updateCurrentLocation commits when its closure holds `seen`
\* and the committed state is `prevState`
LocationUpdate(seen, prevState, location) ==
  LET route == Val(seen.currentRoute)
      found == findCurrentStep(route, seen.currentStepIndex, location)
      upcomingMemory == findUpcomingMemory(route, found.newStepIndex)
      inner == IF IsNull(upcomingMemory) THEN Null ELSE MemoryOf(Val(upcomingMemory))
      distanceToNextMemory ==
        IF IsNull(inner) THEN Null
        ELSE Some(calculateDistance(location, Val(inner).location))
  IN [prevState EXCEPT !.currentStepIndex = found.newStepIndex,
                       !.upcomingMemory = inner,
                       !.distanceToNextMemory = distanceToNextMemory,
                       !.travelledDistance = @ + found.distanceTravelled]

\* updateCurrentLocation, followed while travelledDistance is at most
\* maxTravelled
updateCurrentLocationWithin(location, maxTravelled) ==
  IF ~rendered.activeNavigation \/ IsNull(rendered.currentRoute)
  THEN Ends("updateCurrentLocation", "returned")
  ELSE LET next == LocationUpdate(rendered, navigationState, location)
       IN /\ next.currentStepIndex <= MaxStepIndex
          /\ next.travelledDistance <= maxTravelled
          /\ Commit(next, "updateCurrentLocation")

updateCurrentLocation(location) ==
  updateCurrentLocationWithin(location, MaxTravelled)

\* recalculateRoute: the position read from the geolocation API is never
\* used; calculateRoutes and startNavigation are the functions of the render
\* recalculateRoute belongs to, and read its navigationState
recalculateRoute(position, now) ==
  IF \/ ~rendered.activeNavigation \/ IsNull(rendered.currentRoute)
     \/ IsNull(rendered.origin) \/ IsNull(rendered.destination)
  THEN Ends("recalculateRoute", "returned")
  ELSE LET maxDetourMinutes == userProfile.navigationPreferences.maxDetourTime
           transportMode == userProfile.navigationPreferences.transportationMode
           plan == PlannedRoutes[<<Val(rendered.origin), Val(rendered.destination)>>,
                                 memories, transportMode, maxDetourMinutes, 5]
           routes == SelectableRoutes(rendered)
       IN \E alternativeRoutes \in plan.alternativeRoutes :
            LET calculated == [navigationState EXCEPT
                                 !.currentRoute = Some(plan.primaryRoute),
                                 !.alternativeRoutes = alternativeRoutes]
            IN Commit(StartedState(calculated, routes[1], now), "recalculateRoute")

ContextNext ==
  \/ Render
  \/ \E e \in Endpoints : setOriginAndDestination(e[1], e[2])
  \/ \E k \in MemoryLimits :
       calculateRoutes(userProfile.navigationPreferences.transportationMode,
                       userProfile.navigationPreferences.maxDetourTime, k)
  \/ \E i \in RouteIndexes, now \in Times : startNavigation(i, now)
  \/ stopNavigation
  \/ navigateToNextStep
  \/ \E loc \in Locations : updateCurrentLocation(loc)
  \/ \E position \in Locations, now \in Times : recalculateRoute(position, now)

SpecContext == ContextInit /\ [][ContextNext]_vars

(***************************************************************************)
(* The location stream of one session: a route is planned and started      *)
(* while the session is idle; once it is active the stream delivers the    *)
(* end of the current step, one step after the other, and nothing else     *)
(* is called.  React renders after every update and every position of the  *)
(* stream is delivered, which the fairness conditions state.               *)
(***************************************************************************)
DeliveryInit == ContextInit /\ Len(memories) < MaxStepIndex

DeliverEndOfStep ==
  /\ navigationState.activeNavigation
  /\ ~IsNull(navigationState.currentRoute)
  /\ rendered = Closure(navigationState)
  /\ LET route == Val(navigationState.currentRoute)
         steps == FlattenSteps(route.legs, Len(route.legs))
     IN /\ navigationState.currentStepIndex < Len(steps)
        /\ updateCurrentLocation(steps[navigationState.currentStepIndex + 1].endLocation)

DeliveryNext ==
  \/ Render
  \/ /\ ~navigationState.activeNavigation
     /\ \/ \E e \in Endpoints : setOriginAndDestination(e[1], e[2])
        \/ \E k \in MemoryLimits :
             calculateRoutes(userProfile.navigationPreferences.transportationMode,
                             userProfile.navigationPreferences.maxDetourTime, k)
        \/ \E i \in RouteIndexes, now \in Times : startNavigation(i, now)
  \/ DeliverEndOfStep

\* A session whose location stream may report any location any number of
\* times: travelledDistance is followed up to MaxLingered.
LingeringNext ==
  \/ Render
  \/ /\ ~navigationState.activeNavigation
     /\ \/ \E e \in Endpoints : setOriginAndDestination(e[1], e[2])
        \/ \E k \in MemoryLimits :
             calculateRoutes(userProfile.navigationPreferences.transportationMode,
                             userProfile.navigationPreferences.maxDetourTime, k)
        \/ \E i \in RouteIndexes, now \in Times : startNavigation(i, now)
  \/ \E loc \in Locations : updateCurrentLocationWithin(loc, MaxLingered)

SpecLingering == DeliveryInit /\ [][LingeringNext]_vars

SpecDelivery ==
  DeliveryInit /\ [][DeliveryNext]_vars /\ WF_vars(Render) /\ WF_vars(DeliverEndOfStep)

(***************************************************************************)
(* The planner's functions applied on their own to arguments drawn when    *)
(* the behaviour starts.                                                   *)
(***************************************************************************)
MaxPlanMemories == 3    \* memories in the list the planner is given

\* every list of distinct memories, in every order
PlanMemoryLists ==
  UNION { {[i \in 1..c |-> AllMemories[s[i]]] : s \in InjectiveSeqs(Len(AllMemories), c)} :
            c \in 0..Min(MaxPlanMemories, Len(AllMemories)) }

PlanEndpoints == { << <<0, 0>>, <<6000, 0>> >>, << <<4000, 300>>, <<6000, 0>> >> }

PlanInputs ==
  [endpoints : PlanEndpoints, memories : PlanMemoryLists, transportMode : Modes,
   maxDetourMinutes : DetourBudgets, maxMemories : MemoryLimits]

\* the memories of the input as waypoints, none filtered out
PlanWaypoints(in) ==
  [i \in 1..Len(in.memories) |->
     MemoryWaypointOf(in.endpoints[1], in.endpoints[2], in.memories[i], i - 1)]

PlannerInit ==
  /\ planInput \in {Some(in) : in \in PlanInputs}
  /\ planOutput = Null
  /\ navigationState = defaultNavigationState
  /\ rendered = Closure(defaultNavigationState)
  /\ unrendered = 0
  /\ memories = <<>>
  /\ userProfile = [navigationPreferences |->
                      [maxDetourTime |-> 10, transportationMode |-> "driving"]]
  /\ lastCall = Call("none", "returned")
  /\ SliceIdle
  /\ MemoriesIdle

\* fn was applied to the input and returned result
Returns(fn, result) ==
  /\ planOutput' = Some([fn |-> fn, result |-> result])
  /\ UNCHANGED <<planInput, contextVars, sliceVars, lastCall, memoriesVars>>

ApplyFindPotentialMemoryWaypoints ==
  LET in == Val(planInput)
  IN Returns("findPotentialMemoryWaypoints",
             findPotentialMemoryWaypoints(in.endpoints[1], in.endpoints[2],
                                          in.memories, in.maxDetourMinutes))

ApplySortWaypointsByPriority ==
  Returns("sortWaypointsByPriority", sortWaypointsByPriority(PlanWaypoints(Val(planInput))))

ApplyOrderWaypointsByGreedyPath ==
  LET in == Val(planInput)
  IN Returns("orderWaypointsByGreedyPath",
             orderWaypointsByGreedyPath(in.endpoints[1], in.endpoints[2], PlanWaypoints(in)))

ApplyGenerateRouteWithWaypoints ==
  LET in == Val(planInput)
  IN Returns("generateRouteWithWaypoints",
             generateRouteWithWaypoints(in.endpoints[1], in.endpoints[2],
                                        PlanWaypoints(in), in.transportMode))

\* the primary route calculateRoutes builds from the input
ApplyCalculateRoutes ==
  LET in == Val(planInput)
  IN Returns("calculateRoutes",
             PlanRoutes(in.endpoints[1], in.endpoints[2], in.memories, in.transportMode,
                        in.maxDetourMinutes, in.maxMemories).primaryRoute)

\* the endpoints and the memory locations of the input
PlanPoints(in) ==
  {in.endpoints[1], in.endpoints[2]} \cup {in.memories[i].location : i \in DOMAIN in.memories}

\* both distance functions, applied to every pair of points of the input
ApplyCalculateDistance ==
  LET points == PlanPoints(Val(planInput))
  IN Returns("calculateDistance",
             [from \in points, to \in points |->
                [context |-> calculateDistance(from, to),
                 slice |-> calculateDistanceLatLon(Lat(from), Lon(from), Lat(to), Lon(to))]])

PlannerNext ==
  \/ ApplyCalculateDistance
  \/ ApplyFindPotentialMemoryWaypoints
  \/ ApplySortWaypointsByPriority
  \/ ApplyOrderWaypointsByGreedyPath
  \/ ApplyGenerateRouteWithWaypoints
  \/ ApplyCalculateRoutes

SpecPlanner == PlannerInit /\ [][PlannerNext]_vars

\* the alternatives of calculateRoutes: a driving request from (0,0) that
\* keeps every qualifying candidate
AlternativesInputs ==
  {in \in PlanInputs : /\ in.endpoints[1] = <<0, 0>>
                       /\ in.transportMode = "driving"
                       /\ in.maxMemories = 5}

AlternativesInit ==
  /\ planInput \in {Some(in) : in \in AlternativesInputs}
  /\ planOutput = Null
  /\ navigationState = defaultNavigationState
  /\ rendered = Closure(defaultNavigationState)
  /\ unrendered = 0
  /\ memories = <<>>
  /\ userProfile = [navigationPreferences |->
                      [maxDetourTime |-> 10, transportationMode |-> "driving"]]
  /\ lastCall = Call("none", "returned")
  /\ SliceIdle
  /\ MemoriesIdle

\* generateAlternativeRoutes as calculateRoutes calls it: on the sorted
\* candidates within the budget, for two alternatives
ApplyGenerateAlternativeRoutes ==
  LET in == Val(planInput)
      sortedWaypoints ==
        sortWaypointsByPriority(
          findPotentialMemoryWaypoints(in.endpoints[1], in.endpoints[2], in.memories,
                                       in.maxDetourMinutes))
  IN \E alternatives \in generateAlternativeRoutes(in.endpoints[1], in.endpoints[2],
                                                   sortedWaypoints, in.transportMode, 2) :
       Returns("generateAlternativeRoutes", alternatives)

SpecAlternatives == AlternativesInit /\ [][ApplyGenerateAlternativeRoutes]_vars

(***************************************************************************)
(* The slice: src/src/store/slices/navigationSlice.ts.                     *)
(***************************************************************************)
MaxStoreMemories == 2   \* memories state.memories.memories holds
MaxClock == 1           \* Date.now() is followed from 0 up to this value
MaxPending == 2         \* route computations waiting for their timer
MaxBoundary == 2        \* location updates reach the ends of the first steps

\* memories of the store, [id, location, importance]
AllStoreMemories ==
  << [id |-> "s1", location |-> <<300, 100>>,   importance |-> 3],
     [id |-> "s2", location |-> <<0, 20000>>,   importance |-> 5],
     [id |-> "s3", location |-> <<100, 0>>,     importance |-> 4] >>

StoreMemoryLists ==
  { SubSeq(AllStoreMemories, 1, k) : k \in 0..Min(MaxStoreMemories, Len(AllStoreMemories)) }

(***************************************************************************)
(* Math.random() in calculateRouteWithMemories: one draw holds the values  *)
(* one run of the thunk reads.                                             *)
(*   isNearRoute[i]        Math.random() > 0.5 for the i-th memory         *)
(*   distanceFromRoute     Math.floor(Math.random() * 500)                 *)
(*   stepDistance[i]       Math.floor(Math.random() * 500 + 100)           *)
(*   stepDuration[i]       Math.floor(Math.random() * 60 + 30)             *)
(*   keep[a][i]            Math.random() > 0.3 for alternative a, memory i *)
(*   factor[a]             0.9 + Math.random() * 0.2, in tenths            *)
(***************************************************************************)
NumSteps == 10

DrawA ==
  [isNearRoute |-> <<TRUE, TRUE, TRUE, TRUE>>,
   distanceFromRoute |-> 120,
   stepDistance |-> [i \in 1..NumSteps |-> 100 + 10 * i],
   stepDuration |-> [i \in 1..NumSteps |-> 30 + i],
   keep |-> << <<TRUE, TRUE, TRUE, TRUE>>, <<FALSE, TRUE, FALSE, TRUE>> >>,
   factor |-> <<9, 10>>]

DrawB ==
  [isNearRoute |-> <<FALSE, TRUE, FALSE, TRUE>>,
   distanceFromRoute |-> 0,
   stepDistance |-> [i \in 1..NumSteps |-> 590],
   stepDuration |-> [i \in 1..NumSteps |-> 80],
   keep |-> << <<FALSE, FALSE, FALSE, FALSE>>, <<TRUE, TRUE, TRUE, TRUE>> >>,
   factor |-> <<10, 9>>]

RandomDraws == { DrawA, DrawB }

\* the indices of s, in order, for which keep holds
RECURSIVE FilterIndices(_, _, _)
FilterIndices(n, keep, i) ==
  IF i > n THEN <<>>
  ELSE (IF keep[i] THEN <<i>> ELSE <<>>) \o FilterIndices(n, keep, i + 1)

\* stable sort by importance, highest first (comparator b.importance - a.importance)
InsertByImportance(sorted, m) ==
  LET k == Cardinality({i \in 1..Len(sorted) : sorted[i].importance >= m.importance})
  IN SubSeq(sorted, 1, k) \o <<m>> \o SubSeq(sorted, k + 1, Len(sorted))

RECURSIVE SortByImportance(_, _)
SortByImportance(mems, n) ==
  IF n = 0 THEN <<>>
  ELSE InsertByImportance(SortByImportance(mems, n - 1), mems[n])

\* the memories the route passes: filter, sort, slice
RouteMemories(allMemories, mergedSettings, draw) ==
  LET nearIdx == FilterIndices(Len(allMemories), draw.isNearRoute, 1)
      near == [j \in 1..Len(nearIdx) |-> allMemories[nearIdx[j]]]
      sorted == IF mergedSettings.prioritizeImportantMemories
                THEN SortByImportance(near, Len(near))
                ELSE near
  IN SliceTo(sorted, mergedSettings.maxMemoriesPerRoute)

WaypointsOf(mems, draw) ==
  [j \in 1..Len(mems) |->
     [location |-> mems[j].location, memoryId |-> mems[j].id,
      isMemoryLocation |-> TRUE, distanceFromRoute |-> draw.distanceFromRoute]]

\* 0.005 degrees, in metres
NearbyThreshold == 556

\* waypoints.find(wp => latDiff < 0.005 && lngDiff < 0.005)
NearbyMemoryId(waypoints, next) ==
  LET Abs(x) == IF x < 0 THEN -x ELSE x
      hits == SelectSeq(waypoints,
                LAMBDA wp : /\ Abs(Lat(wp.location) - Lat(next)) < NearbyThreshold
                            /\ Abs(Lon(wp.location) - Lon(next)) < NearbyThreshold)
  IN IF Len(hits) = 0 THEN Null ELSE Some(hits[1].memoryId)

\* the ten simulated steps from origin to destination
StepsOf(origin, destination, waypoints, draw) ==
  LET latStep == (Lat(destination) - Lat(origin)) \div NumSteps
      lngStep == (Lon(destination) - Lon(origin)) \div NumSteps
      At(i) == <<Lon(origin) + i * lngStep, Lat(origin) + i * latStep>>
  IN [i \in 1..NumSteps |->
        [distance |-> draw.stepDistance[i],
         duration |-> draw.stepDuration[i],
         maneuver |-> IF i = 1 THEN "start" ELSE IF i = NumSteps THEN "arrive" ELSE "straight",
         startLocation |-> At(i - 1),
         endLocation |-> At(i),
         associatedMemoryId |-> NearbyMemoryId(waypoints, At(i))]]

RECURSIVE SumField(_, _, _)
SumField(steps, n, field) ==
  IF n = 0 THEN 0 ELSE SumField(steps, n - 1, field) + steps[n][field]

\* the payload of calculateRouteWithMemories.fulfilled built at time `now`
BuildRoutes(origin, destination, allMemories, mergedSettings, draw, now) ==
  LET routeMemories == RouteMemories(allMemories, mergedSettings, draw)
      waypoints == WaypointsOf(routeMemories, draw)
      steps == StepsOf(origin, destination, waypoints, draw)
      route == [id |-> <<"route", now>>, origin |-> origin, destination |-> destination,
                waypoints |-> waypoints, steps |-> steps,
                distance |-> SumField(steps, Len(steps), "distance"),
                duration |-> SumField(steps, Len(steps), "duration"),
                memoryCount |-> Len(routeMemories), createdAt |-> now]
      Alternative(index) ==
        LET keptIdx == FilterIndices(Len(routeMemories), draw.keep[index + 1], 1)
            altWaypoints == WaypointsOf([j \in 1..Len(keptIdx) |-> routeMemories[keptIdx[j]]], draw)
            f == draw.factor[index + 1]
            altSteps == [i \in 1..Len(steps) |->
                           [steps[i] EXCEPT !.distance = (@ * f) \div 10,
                                            !.duration = (@ * f) \div 10]]
        IN [id |-> <<"route_alt", index, now>>, origin |-> origin,
            destination |-> destination, waypoints |-> altWaypoints, steps |-> altSteps,
            distance |-> SumField(altSteps, Len(altSteps), "distance"),
            duration |-> SumField(altSteps, Len(altSteps), "duration"),
            memoryCount |-> Len(altWaypoints), createdAt |-> now]
  IN [route |-> route, alternativeRoutes |-> <<Alternative(0), Alternative(1)>>]

\* { ...base, ...partial }
Merge(base, partial) ==
  [k \in DOMAIN base |-> IF k \in DOMAIN partial THEN partial[k] ELSE base[k]]

EmptySettings == [k \in {} |-> 0]

SettingsPayloads == { EmptySettings, [maxMemoriesPerRoute |-> 1] }

SliceEndpoints == { << <<0, 0>>, <<1000, 0>> >> }

SliceLocations == { <<100, 0>>, <<200, 0>>, <<1000, 0>> }

\* a route id the store does not hold, the id of its current route and
\* the ids of its alternatives
PrimaryIds(st) ==
  {<<"missing">>} \cup (IF IsNull(st.currentRoute) THEN {} ELSE {Val(st.currentRoute).id})

RouteIds(st) ==
  PrimaryIds(st) \cup {st.alternativeRoutes[i].id : i \in DOMAIN st.alternativeRoutes}

SliceInit ==
  /\ navigation = initialState
  /\ pending = <<>>
  /\ storeMemories = <<>>
  /\ clock = 0
  /\ lastCall = Call("none", "returned")
  /\ navigationState = defaultNavigationState
  /\ rendered = Closure(defaultNavigationState)
  /\ unrendered = 0
  /\ memories = <<>>
  /\ userProfile = [navigationPreferences |->
                      [maxDetourTime |-> 10, transportationMode |-> "driving"]]
  /\ PlannerIdle
  /\ MemoriesIdle

\* the reducers of one dispatch ran: the store holds next
Reduce(next, op, outcome) ==
  /\ navigation' = next
  /\ lastCall' = Call(op, outcome)
  /\ UNCHANGED <<clock, contextVars, plannerVars, memoriesVars>>

\* Date.now() moves on
Tick ==
  /\ clock < MaxClock
  /\ clock' = clock + 1
  /\ UNCHANGED <<navigation, pending, storeMemories, lastCall, contextVars, plannerVars, memoriesVars>>

\* fetchMemories.fulfilled of the memories slice: state.memories.memories is replaced
fetchMemoriesFulfilled(list) ==
  /\ storeMemories' = list
  /\ lastCall' = Call("fetchMemories", "fulfilled")
  /\ UNCHANGED <<navigation, pending, clock, contextVars, plannerVars, memoriesVars>>

\* dispatch(calculateRouteWithMemories({origin, destination, settings})) up to the await:
\* pending is reduced, the store is read, the timer is set
calculateRouteWithMemories(origin, destination, settings) ==
  /\ Len(pending) < MaxPending
  /\ pending' = Append(pending,
       [origin |-> origin, destination |-> destination,
        allMemories |-> storeMemories,
        mergedSettings |-> Merge(navigation.settings, settings)])
  /\ Reduce([navigation EXCEPT !.isLoading = TRUE, !.error = Null],
            "calculateRoute", "pending")
  /\ UNCHANGED storeMemories

\* the oldest 1500 ms timer fires; the rest of the thunk runs and fulfilled is reduced
calculateRouteFulfilled(draw) ==
  /\ pending # <<>>
  /\ LET req == Head(pending)
           payload == BuildRoutes(req.origin, req.destination, req.allMemories,
                                  req.mergedSettings, draw, clock)
       IN Reduce([navigation EXCEPT !.currentRoute = Some(payload.route),
                                    !.alternativeRoutes = payload.alternativeRoutes,
                                    !.isLoading = FALSE],
                 "calculateRoute", "fulfilled")
  /\ pending' = Tail(pending)
  /\ UNCHANGED storeMemories

\* the route startNavigation's payload creator finds in the store, if any
SelectedRoute(st, routeId) ==
  LET cur == st.currentRoute
      alts == SelectSeq(st.alternativeRoutes, LAMBDA r : r.id = routeId)
  IN IF ~IsNull(cur) /\ Val(cur).id = routeId THEN cur
     ELSE IF Len(alts) > 0 THEN Some(alts[1])
     ELSE Null

\* the store after startNavigation.pending and then fulfilled or rejected
startNavigationOn(st, routeId) ==
  LET selectedRoute == SelectedRoute(st, routeId)
      loading == [st EXCEPT !.isLoading = TRUE, !.error = Null]
  IN IF IsNull(selectedRoute)
     THEN [loading EXCEPT !.isLoading = FALSE, !.error = Some("Selected route not found")]
     ELSE [loading EXCEPT !.currentRoute = selectedRoute, !.activeNavigation = TRUE,
                          !.currentStep = 0, !.isLoading = FALSE]

\* dispatch(startNavigation(routeId)): the payload creator does not wait, the
\* thunk settles before any timer or event handler runs
startNavigationThunk(routeId) ==
  /\ Reduce(startNavigationOn(navigation, routeId), "startNavigation",
            IF IsNull(SelectedRoute(navigation, routeId))
            THEN "InvalidRouteSelection" ELSE "fulfilled")
  /\ UNCHANGED <<pending, storeMemories>>

advanceToNextStepOn(st) ==
  IF ~IsNull(st.currentRoute) /\ st.currentStep < Len(Val(st.currentRoute).steps) - 1
  THEN [st EXCEPT !.currentStep = @ + 1]
  ELSE st

setUpcomingMemoryOn(st, payload) ==
  IF ~IsNull(payload.memoryId)
  THEN [st EXCEPT !.memoryDistanceRemaining = Some(payload.distance)]
  ELSE [st EXCEPT !.upcomingMemory = Null, !.memoryDistanceRemaining = Null]

updateNavigationStatsOn(st, payload) ==
  [st EXCEPT !.distanceToDestination = Some(payload.distanceToDestination),
             !.timeToDestination = Some(payload.timeToDestination)]

\* the waypoint nearest to location among those closer than notificationDistance
NearestWaypoint(route, location, notificationDistance) ==
  LET withDistance ==
        [j \in DOMAIN route.waypoints |->
           [memoryId |-> route.waypoints[j].memoryId,
            isMemoryLocation |-> route.waypoints[j].isMemoryLocation,
            currentDistance |-> calculateDistanceLatLon(Lat(location), Lon(location),
                                  Lat(route.waypoints[j].location),
                                  Lon(route.waypoints[j].location))]]
      close == SelectSeq(withDistance,
                 LAMBDA wp : wp.isMemoryLocation /\ wp.currentDistance < notificationDistance)
      best == CHOOSE j \in DOMAIN close :
                \A k \in DOMAIN close :
                  \/ close[j].currentDistance < close[k].currentDistance
                  \/ close[j].currentDistance = close[k].currentDistance /\ j <= k
  IN IF Len(close) = 0 THEN Null ELSE Some(close[best])

\* distance and duration of steps.slice(from), from counted from 0
RemainingOf(steps, from, field) ==
  SumField(steps, Len(steps), field) - SumField(steps, Min(from, Len(steps)), field)

\* the store after updateCurrentLocation's payload creator and its fulfilled action
LocationUpdateOn(st, location) ==
  IF ~st.activeNavigation \/ IsNull(st.currentRoute)
  THEN [st EXCEPT !.currentLocation = Some(location)]
  ELSE
    LET currentRoute == Val(st.currentRoute)
        currentStep == st.currentStep
        hasNext == currentStep + 2 <= Len(currentRoute.steps)
        nextStepData == currentRoute.steps[currentStep + 2]
        reached == hasNext /\ calculateDistanceLatLon(Lat(location), Lon(location),
                                 Lat(nextStepData.startLocation),
                                 Lon(nextStepData.startLocation)) < ArrivalThreshold
        s1 == IF reached THEN advanceToNextStepOn(st) ELSE st
        nextMemory == NearestWaypoint(currentRoute, location, st.settings.notificationDistance)
        s2 == IF IsNull(nextMemory) THEN s1
              ELSE setUpcomingMemoryOn(s1, [memoryId |-> Some(Val(nextMemory).memoryId),
                                            distance |-> Val(nextMemory).currentDistance])
        s3 == updateNavigationStatsOn(s2,
                [distanceToDestination |-> RemainingOf(currentRoute.steps, currentStep, "distance"),
                 timeToDestination |-> RemainingOf(currentRoute.steps, currentStep, "duration")])
    IN [s3 EXCEPT !.currentLocation = Some(location)]

\* dispatch(updateCurrentLocation(location)): the payload creator does not wait
updateCurrentLocationThunk(location) ==
  /\ LocationUpdateOn(navigation, location).currentStep <= MaxBoundary
  /\ Reduce(LocationUpdateOn(navigation, location), "updateCurrentLocation", "fulfilled")
  /\ UNCHANGED <<pending, storeMemories>>

setCurrentLocation(location) ==
  /\ Reduce([navigation EXCEPT !.currentLocation = Some(location)],
            "setCurrentLocation", "returned")
  /\ UNCHANGED <<pending, storeMemories>>

advanceToNextStep ==
  /\ advanceToNextStepOn(navigation).currentStep <= MaxBoundary
  /\ Reduce(advanceToNextStepOn(navigation), "advanceToNextStep", "returned")
  /\ UNCHANGED <<pending, storeMemories>>

UpcomingPayloads ==
  { [memoryId |-> Null, distance |-> 0], [memoryId |-> Some("s1"), distance |-> 250] }

setUpcomingMemory(payload) ==
  /\ Reduce(setUpcomingMemoryOn(navigation, payload), "setUpcomingMemory", "returned")
  /\ UNCHANGED <<pending, storeMemories>>

StatsPayloads == { [distanceToDestination |-> 900, timeToDestination |-> 60] }

updateNavigationStats(payload) ==
  /\ Reduce(updateNavigationStatsOn(navigation, payload), "updateNavigationStats", "returned")
  /\ UNCHANGED <<pending, storeMemories>>

\* stopNavigation keeping five of the old entries behind the new one
stopNavigationKeepingFive(st) ==
  LET stopped == [st EXCEPT !.activeNavigation = FALSE, !.currentStep = 0,
                            !.upcomingMemory = Null, !.memoryDistanceRemaining = Null]
  IN IF ~IsNull(st.currentRoute)
     THEN [stopped EXCEPT !.recentRoutes = <<Val(st.currentRoute)>> \o SliceTo(st.recentRoutes, 5)]
     ELSE stopped

stopNavigationOn(st) ==
  LET stopped == [st EXCEPT !.activeNavigation = FALSE, !.currentStep = 0,
                            !.upcomingMemory = Null, !.memoryDistanceRemaining = Null]
  IN IF ~IsNull(st.currentRoute)
     THEN [stopped EXCEPT !.recentRoutes = <<Val(st.currentRoute)>> \o SliceTo(st.recentRoutes, 4)]
     ELSE stopped

stopNavigationReducer ==
  /\ Reduce(stopNavigationOn(navigation), "stopNavigation", "returned")
  /\ UNCHANGED <<pending, storeMemories>>

updateSettings(payload) ==
  /\ Reduce([navigation EXCEPT !.settings = Merge(@, payload)], "updateSettings", "returned")
  /\ UNCHANGED <<pending, storeMemories>>

clearRoutes ==
  /\ Reduce([navigation EXCEPT !.currentRoute = Null, !.alternativeRoutes = <<>>],
            "clearRoutes", "returned")
  /\ UNCHANGED <<pending, storeMemories>>

(***************************************************************************)
(* The store is followed in three uses. Each starts from the constructed   *)
(* store; they differ in the operations the application dispatches.        *)
(***************************************************************************)
\* sessions: routes are computed, started and stopped as time passes
SliceHistoryNext ==
  \/ Tick
  \/ \E e \in SliceEndpoints : calculateRouteWithMemories(e[1], e[2], EmptySettings)
  \/ calculateRouteFulfilled(DrawA)
  \/ \E routeId \in PrimaryIds(navigation) : startNavigationThunk(routeId)
  \/ stopNavigationReducer

SpecSliceHistory == SliceInit /\ [][SliceHistoryNext]_vars

\* planning: memories are loaded, settings changed, routes computed and cleared
SliceRoutingNext ==
  \/ \E list \in StoreMemoryLists : fetchMemoriesFulfilled(list)
  \/ \E payload \in SettingsPayloads : updateSettings(payload)
  \/ \E e \in SliceEndpoints, settings \in SettingsPayloads :
       calculateRouteWithMemories(e[1], e[2], settings)
  \/ \E draw \in RandomDraws : calculateRouteFulfilled(draw)
  \/ clearRoutes

SpecSliceRouting == SliceInit /\ [][SliceRoutingNext]_vars

\* tracking: a computed route is started and locations arrive
SliceTrackingNext ==
  \/ \E e \in SliceEndpoints : calculateRouteWithMemories(e[1], e[2], EmptySettings)
  \/ \E draw \in RandomDraws : calculateRouteFulfilled(draw)
  \/ \E routeId \in RouteIds(navigation) : startNavigationThunk(routeId)
  \/ \E location \in SliceLocations : updateCurrentLocationThunk(location)
  \/ \E location \in SliceLocations : setCurrentLocation(location)
  \/ advanceToNextStep
  \/ \E payload \in UpcomingPayloads : setUpcomingMemory(payload)
  \/ \E payload \in StatsPayloads : updateNavigationStats(payload)

SpecSliceTracking == SliceInit /\ [][SliceTrackingNext]_vars

\* starting: memories are loaded, routes computed, one of them is started,
\* the routes are cleared
SliceStartingNext ==
  \/ \E list \in StoreMemoryLists : fetchMemoriesFulfilled(list)
  \/ \E e \in SliceEndpoints : calculateRouteWithMemories(e[1], e[2], EmptySettings)
  \/ \E draw \in RandomDraws : calculateRouteFulfilled(draw)
  \/ \E routeId \in RouteIds(navigation) : startNavigationThunk(routeId)
  \/ clearRoutes

SpecSliceStarting == SliceInit /\ [][SliceStartingNext]_vars

(***************************************************************************)
(* The memories slice (store/slices/memoriesSlice.ts): its reducers and    *)
(* the fulfilled cases of its thunks.  A memory is followed by the fields  *)
(* applyFilters reads: id, the ids of its tags, date and importance.       *)
(* Dates are numbers.                                                      *)
(***************************************************************************)
MaxSliceMemories == 2   \* memories the slice holds

MemoryIds == {"a", "b"}

MemoryContents ==
  {[tags |-> <<"t1">>, date |-> Some(2), importance |-> 5],
   [tags |-> <<>>, date |-> Null, importance |-> 3],
   [tags |-> <<"t1">>, date |-> Null, importance |-> 3],
   [tags |-> <<>>, date |-> Some(2), importance |-> 5]}

SliceMemories ==
  {[id |-> id, tags |-> c.tags, date |-> c.date, importance |-> c.importance] :
     id \in MemoryIds, c \in MemoryContents}

\* what a query returns: every document once
FetchedMemories ==
  {<<>>} \cup {<<m>> : m \in SliceMemories}
         \cup {<<m, n>> : m \in {x \in SliceMemories : x.id = "a"},
                          n \in {x \in SliceMemories : x.id = "b"}}

FilterTags == {<<>>, <<"t1">>}
FilterDateRanges ==
  {[from |-> from, to |-> to] : from \in {Null, Some(3)}, to \in {Null, Some(1)}}
FilterImportances == {Null, Some(5)}

applyFilters(list, filters) ==
  LET keeps(memory) ==
        /\ Len(filters.tags) > 0 =>
             \E i \in DOMAIN filters.tags, j \in DOMAIN memory.tags :
               filters.tags[i] = memory.tags[j]
        /\ ~(/\ ~IsNull(filters.dateRange.from) /\ ~IsNull(memory.date)
             /\ Val(memory.date) < Val(filters.dateRange.from))
        /\ ~(/\ ~IsNull(filters.dateRange.to) /\ ~IsNull(memory.date)
             /\ Val(memory.date) > Val(filters.dateRange.to))
        /\ ~(/\ ~IsNull(filters.importance)
             /\ memory.importance # Val(filters.importance))
  IN SelectSeq(list, keeps)

MemoriesInit ==
  /\ memoriesState = memoriesInitialState
  /\ navigationState = defaultNavigationState
  /\ rendered = Closure(defaultNavigationState)
  /\ unrendered = 0
  /\ memories = <<>>
  /\ userProfile = [navigationPreferences |->
                      [maxDetourTime |-> 10, transportationMode |-> "driving"]]
  /\ lastCall = Call("none", "returned")
  /\ SliceIdle
  /\ PlannerIdle

\* a reducer of the memories slice ran: the slice holds next
ReduceMemories(next) ==
  /\ memoriesState' = next
  /\ UNCHANGED <<contextVars, sliceVars, lastCall, plannerVars>>

clearCurrentMemory ==
  ReduceMemories([memoriesState EXCEPT !.currentMemory = Null])

setFilterTags(payload) ==
  LET activeFilters == [memoriesState.activeFilters EXCEPT !.tags = payload]
  IN ReduceMemories([memoriesState EXCEPT
       !.activeFilters = activeFilters,
       !.filteredMemories = applyFilters(memoriesState.memories, activeFilters)])

setFilterDateRange(payload) ==
  LET activeFilters == [memoriesState.activeFilters EXCEPT !.dateRange = payload]
  IN ReduceMemories([memoriesState EXCEPT
       !.activeFilters = activeFilters,
       !.filteredMemories = applyFilters(memoriesState.memories, activeFilters)])

setFilterImportance(payload) ==
  LET activeFilters == [memoriesState.activeFilters EXCEPT !.importance = payload]
  IN ReduceMemories([memoriesState EXCEPT
       !.activeFilters = activeFilters,
       !.filteredMemories = applyFilters(memoriesState.memories, activeFilters)])

clearFilters ==
  ReduceMemories([memoriesState EXCEPT
    !.activeFilters = memoriesInitialState.activeFilters,
    !.filteredMemories = memoriesState.memories])

\* the pending case of each of the five thunks
memoriesRequestPending ==
  ReduceMemories([memoriesState EXCEPT !.isLoading = TRUE])

fetchMemories_fulfilled(payload) ==
  ReduceMemories([memoriesState EXCEPT
    !.memories = payload,
    !.filteredMemories = applyFilters(payload, memoriesState.activeFilters),
    !.isLoading = FALSE])

fetchMemoryById_fulfilled(payload) ==
  ReduceMemories([memoriesState EXCEPT
    !.currentMemory = Some(payload), !.isLoading = FALSE])

\* createMemory.fulfilled: the payload carries the id of the new document.
\* state.memories is assigned first, and the list that is filtered is built
\* from state.memories as it is after that assignment
createMemory_fulfilled(payload) ==
  /\ Len(memoriesState.memories) < MaxSliceMemories
  /\ \A i \in DOMAIN memoriesState.memories : memoriesState.memories[i].id # payload.id
  /\ LET assigned == <<payload>> \o memoriesState.memories
     IN ReduceMemories([memoriesState EXCEPT
          !.memories = assigned,
          !.filteredMemories =
             applyFilters(<<payload>> \o assigned, memoriesState.activeFilters),
          !.currentMemory = Some(payload),
          !.isLoading = FALSE])

updateMemory_fulfilled(updatedMemory) ==
  LET mapped == [i \in DOMAIN memoriesState.memories |->
                   IF memoriesState.memories[i].id = updatedMemory.id
                   THEN updatedMemory ELSE memoriesState.memories[i]]
  IN ReduceMemories([memoriesState EXCEPT
       !.memories = mapped,
       !.filteredMemories = applyFilters(mapped, memoriesState.activeFilters),
       !.currentMemory = Some(updatedMemory),
       !.isLoading = FALSE])

deleteMemory_fulfilled(memoryId) ==
  LET others(memory) == memory.id # memoryId
  IN ReduceMemories([memoriesState EXCEPT
       !.memories = SelectSeq(@, others),
       !.filteredMemories = SelectSeq(@, others),
       !.currentMemory = IF ~IsNull(@) /\ Val(@).id = memoryId THEN Null ELSE @,
       !.isLoading = FALSE])

MemoriesNext ==
  \/ clearCurrentMemory
  \/ \E payload \in FilterTags : setFilterTags(payload)
  \/ \E payload \in FilterDateRanges : setFilterDateRange(payload)
  \/ \E payload \in FilterImportances : setFilterImportance(payload)
  \/ clearFilters
  \/ memoriesRequestPending
  \/ \E payload \in FetchedMemories : fetchMemories_fulfilled(payload)
  \/ \E payload \in SliceMemories : fetchMemoryById_fulfilled(payload)
  \/ \E payload \in SliceMemories : createMemory_fulfilled(payload)
  \/ \E payload \in SliceMemories : updateMemory_fulfilled(payload)
  \/ \E memoryId \in MemoryIds : deleteMemory_fulfilled(memoryId)

SpecMemories == MemoriesInit /\ [][MemoriesNext]_vars

(***************************************************************************)
(* Properties of the context tracker.                                      *)
(***************************************************************************)
\* the handlers' closure holds the committed state
Fresh == rendered = Closure(navigationState)

ActiveRoute == Val(navigationState.currentRoute)
ActiveSteps == FlattenSteps(ActiveRoute.legs, Len(ActiveRoute.legs))

\* `location` is within the arrival threshold of the end of step i (0-based)
AtEndOfStep(location, i) ==
  calculateDistance(location, ActiveSteps[i + 1].endLocation) < ArrivalThreshold

\* C1: while the session is active, currentStepIndex is a valid index into
\* the flattened steps of the active route.
C1_StepIndexValid ==
  navigationState.activeNavigation =>
    /\ ~IsNull(navigationState.currentRoute)
    /\ navigationState.currentStepIndex \in 0..(TotalSteps(ActiveRoute) - 1)

\* C2: a location update at the end of the current step i, i not the final
\* step, leaves currentStepIndex = i + 1.
C2_AdvancesByOne ==
  [][\A loc \in Locations :
       LET i == navigationState.currentStepIndex
       IN ( /\ navigationState.activeNavigation
            /\ Fresh
            /\ i \in 0..(TotalSteps(ActiveRoute) - 2)
            /\ AtEndOfStep(loc, i)
            /\ updateCurrentLocation(loc) )
          => navigationState'.currentStepIndex = i + 1]_vars

\* C3: a location update at the end of the final step ends the session: it
\* is no longer active.
C3_FinalStepCompletes ==
  [][\A loc \in Locations :
       LET i == navigationState.currentStepIndex
       IN ( /\ navigationState.activeNavigation
            /\ Fresh
            /\ i = TotalSteps(ActiveRoute) - 1
            /\ AtEndOfStep(loc, i)
            /\ updateCurrentLocation(loc) )
          => ~navigationState'.activeNavigation]_vars

\* C5: a location update on a session that is not active fails with
\* InvalidSessionState.
C5_UpdateWhileInactiveFails ==
  [][\A loc \in Locations :
       ( /\ ~navigationState.activeNavigation
         /\ Fresh
         /\ updateCurrentLocation(loc) )
       => lastCall'.outcome = "InvalidSessionState"]_vars

\* C6: start on a session that is already active fails with
\* InvalidSessionState and leaves the session as it is.
C6_StartWhileActiveFails ==
  [][\A i \in RouteIndexes, now \in Times :
       ( /\ navigationState.activeNavigation
         /\ Fresh
         /\ startNavigation(i, now) )
       => /\ lastCall'.outcome = "InvalidSessionState"
          /\ navigationState' = navigationState]_vars

\* C8: location updates are applied one after the other: each update leaves
\* the state that the handler computes from the committed session, also when
\* it is called before the previous update is rendered.
C8_UpdatesSerialized ==
  [][\A loc \in Locations :
       ( /\ navigationState.activeNavigation
         /\ rendered.activeNavigation
         /\ updateCurrentLocation(loc) )
       => navigationState' = LocationUpdate(Closure(navigationState), navigationState, loc)]_vars

\* C15: recalculation in an active session makes the route computed from the
\* traveller's position the active route: its first leg starts there.
C15_RecalculatesFromPosition ==
  [][\A position \in Locations, now \in Times :
       ( /\ navigationState.activeNavigation
         /\ Fresh
         /\ recalculateRoute(position, now) )
       => LET route == Val(navigationState'.currentRoute)
          IN route.legs[1].startLocation = position]_vars

\* C16: recalculation carries the travelled distance forward and resets
\* currentStepIndex to 0.
C16_RecalculateKeepsTravelled ==
  [][\A position \in Locations, now \in Times :
       ( /\ navigationState.activeNavigation
         /\ Fresh
         /\ recalculateRoute(position, now) )
       => /\ navigationState'.travelledDistance >= navigationState.travelledDistance
          /\ navigationState'.currentStepIndex = 0]_vars

\* C17: calculateRoutes without origin or destination fails with
\* MissingOriginOrDestination and leaves currentRoute and alternativeRoutes
\* as they are.
C17_MissingEndpointsRejected ==
  [][\A m \in Modes, b \in DetourBudgets, k \in MemoryLimits :
       ( /\ IsNull(navigationState.origin) \/ IsNull(navigationState.destination)
         /\ calculateRoutes(m, b, k) )
       => /\ lastCall' = Call("calculateRoutes", "MissingOriginOrDestination")
          /\ navigationState'.currentRoute = navigationState.currentRoute
          /\ navigationState'.alternativeRoutes = navigationState.alternativeRoutes]_vars

C17_Witness ==
  /\ lastCall = Call("calculateRoutes", "MissingOriginOrDestination")
  /\ IsNull(navigationState.origin)
  /\ IsNull(navigationState.currentRoute)

\* C18: start with an index that names no computed route (negative, or at
\* least the number of routes) fails with InvalidRouteSelection and leaves
\* the active flag, the active route and currentStepIndex as they are.
C18_InvalidIndexRejected ==
  [][\A routeIndex \in RouteIndexes, now \in Times :
       ( /\ ~navigationState.activeNavigation
         /\ Fresh
         /\ routeIndex < 0 \/ routeIndex >= Len(SelectableRoutes(navigationState))
         /\ startNavigation(routeIndex, now) )
       => /\ lastCall' = Call("startNavigation", "InvalidRouteSelection")
          /\ navigationState'.activeNavigation = navigationState.activeNavigation
          /\ navigationState'.currentRoute = navigationState.currentRoute
          /\ navigationState'.currentStepIndex = navigationState.currentStepIndex]_vars

\* navigateToNextStep is called on the last step of the route
Completes ==
  /\ rendered.activeNavigation
  /\ ~IsNull(rendered.currentRoute)
  /\ rendered.currentStepIndex + 1 >= TotalSteps(Val(rendered.currentRoute))
  /\ navigateToNextStep

\* the session as stop and completion leave it
Idle(st) ==
  /\ ~st.activeNavigation
  /\ st.currentStepIndex = 0
  /\ st.travelledDistance = 0
  /\ IsNull(st.upcomingMemory)
  /\ IsNull(st.distanceToNextMemory)

\* C20: stop and completion leave the session idle (not active, step index
\* and travelled distance 0, no upcoming memory and no distance to it), and
\* a start that follows is accepted and begins the selected route at step 0
\* with nothing travelled.
C20_StopAndCompletionReturnToIdle ==
  /\ [][(stopNavigation \/ Completes) => Idle(navigationState')]_vars
  /\ [][\A routeIndex \in RouteIndexes, now \in Times :
          ( /\ lastCall.op \in {"stopNavigation", "navigateToNextStep"}
            /\ Idle(navigationState)
            /\ Fresh
            /\ routeIndex >= 0 /\ routeIndex < Len(SelectableRoutes(navigationState))
            /\ startNavigation(routeIndex, now) )
          => /\ lastCall' = Call("startNavigation", "returned")
             /\ navigationState' =
                  StartedState(navigationState,
                               SelectableRoutes(navigationState)[routeIndex + 1], now)
             /\ navigationState'.activeNavigation
             /\ navigationState'.currentStepIndex = 0
             /\ navigationState'.travelledDistance = 0]_vars

\* stop has just ended a session that was active and past its first step
C20_Witness ==
  /\ lastCall = Call("stopNavigation", "returned")
  /\ Idle(navigationState)
  /\ rendered.activeNavigation
  /\ rendered.currentStepIndex > 0

\* settings.notificationDistance of the slice's initial state, in metres
NotificationRadius == 300

\* C25: after an accepted location update in an active session the upcoming
\* memory and the distance to it are both set or both cleared: set to the
\* nearest waypoint not yet passed and its distance when that waypoint is
\* within the notification radius, cleared otherwise.  Every leg has one
\* step, so waypoint k is passed once currentStepIndex has reached k.
C25_UpcomingWithinRadius ==
  [][\A location \in Locations :
       ( /\ navigationState.activeNavigation
         /\ Fresh
         /\ updateCurrentLocation(location) )
       => LET waypoints == ActiveRoute.memoryWaypoints
              DistanceTo(k) == calculateDistance(location, waypoints[k].memory.location)
              near == {k \in DOMAIN waypoints :
                         /\ k > navigationState'.currentStepIndex
                         /\ DistanceTo(k) < NotificationRadius}
              upcomingMemory == navigationState'.upcomingMemory
              distanceToNextMemory == navigationState'.distanceToNextMemory
          IN /\ IsNull(upcomingMemory) <=> IsNull(distanceToNextMemory)
             /\ near = {} => IsNull(upcomingMemory)
             /\ near # {} =>
                  /\ ~IsNull(upcomingMemory)
                  /\ \E k \in near :
                       /\ \A j \in near : DistanceTo(k) <= DistanceTo(j)
                       /\ Val(upcomingMemory) = waypoints[k].memory
                       /\ distanceToNextMemory = Some(DistanceTo(k))]_vars

\* C27: a location update that completes the current step (the location is
\* within the arrival threshold of the step's end) adds the length of the
\* completed step to travelledDistance (kept in tenths of a metre).
C27_CompletedStepAddsItsLength ==
  [][\A location \in Locations :
       ( /\ navigationState.activeNavigation
         /\ Fresh
         /\ navigationState.currentStepIndex < Len(ActiveSteps)
         /\ AtEndOfStep(location, navigationState.currentStepIndex)
         /\ updateCurrentLocation(location) )
       => navigationState'.travelledDistance
            = navigationState.travelledDistance
                + ActiveSteps[navigationState.currentStepIndex + 1].distance * 10]_vars

\* C32: an active session whose location stream delivers the end of each
\* remaining step, in order, eventually is no longer active.
C32_DeliveredStepsComplete ==
  navigationState.activeNavigation ~> ~navigationState.activeNavigation

\* C34: whenever the session is not active its progress fields have their
\* reset values: step index and travelled distance 0, no start time, no
\* arrival time, no upcoming memory and no distance to it.
C34_InactiveIsReset ==
  ~navigationState.activeNavigation =>
    /\ navigationState.currentStepIndex = 0
    /\ navigationState.travelledDistance = 0
    /\ IsNull(navigationState.navigationStartTime)
    /\ IsNull(navigationState.estimatedArrivalTime)
    /\ IsNull(navigationState.upcomingMemory)
    /\ IsNull(navigationState.distanceToNextMemory)

\* C35: while the navigation is active the travelled distance is at most the
\* total distance of the active route (travelledDistance is kept x10).
C35_TravelledWithinRoute ==
  (navigationState.activeNavigation /\ ~IsNull(navigationState.currentRoute)) =>
    navigationState.travelledDistance
      <= 10 * Val(navigationState.currentRoute).distance

\* C36: within one active session no call of updateCurrentLocation or
\* navigateToNextStep lowers the current step index.
C36_StepIndexNeverDecreases ==
  [][(/\ navigationState.activeNavigation
      /\ navigationState'.activeNavigation
      /\ lastCall'.op \in {"updateCurrentLocation", "navigateToNextStep"})
     => navigationState'.currentStepIndex >= navigationState.currentStepIndex]_vars

(***************************************************************************)
(* Properties of the store.                                                *)
(***************************************************************************)
\* C4: stop() while no navigation is active fails with InvalidSessionState
\* and leaves the session and the recent-routes history as they were.
C4_StopWhileIdleFails ==
  [][(~navigation.activeNavigation /\ stopNavigationReducer)
       => /\ lastCall'.outcome = "InvalidSessionState"
          /\ navigation' = navigation]_vars

\* C7: the result of a route computation is applied only if no computation
\* was requested after it: while a later request is in flight, a completing
\* earlier computation leaves the current route and the alternatives alone.
C7_StaleResultDiscarded ==
  [][\A draw \in RandomDraws :
       (Len(pending) > 1 /\ calculateRouteFulfilled(draw))
         => /\ navigation'.currentRoute = navigation.currentRoute
            /\ navigation'.alternativeRoutes = navigation.alternativeRoutes]_vars

\* C9: the recent-routes history never holds more than 5 routes; it changes
\* only on stop; a stop of an active session puts the session's route first,
\* moves every older entry one place back and drops what falls beyond the
\* fifth place.
C9_RecentRoutesHistory ==
  [][LET old == navigation.recentRoutes
         new == navigation'.recentRoutes
     IN /\ Len(new) <= 5
        /\ ~stopNavigationReducer => new = old
        /\ (navigation.activeNavigation /\ stopNavigationReducer)
             => /\ Len(new) = Min(Len(old) + 1, 5)
                /\ new[1] = Val(navigation.currentRoute)
                /\ \A i \in 2..Len(new) : new[i] = old[i - 1]]_vars

\* C9 happens: a stop has just filled the history with 5 routes, the newest
\* of them another route than the oldest
C9_Witness ==
  /\ lastCall.op = "stopNavigation"
  /\ Len(navigation.recentRoutes) = 5
  /\ navigation.recentRoutes[1] # navigation.recentRoutes[5]
  /\ navigation.recentRoutes[1] = Val(navigation.currentRoute)

\* C10: every waypoint of the computed primary route has a detour time
\* within the detour budget of the settings.
C10_WaypointsWithinBudget ==
  ~IsNull(navigation.currentRoute) =>
    LET route == Val(navigation.currentRoute)
    IN \A j \in DOMAIN route.waypoints :
         DetourTimeOf(route.origin, route.destination, route.waypoints[j].location)
           <= navigation.settings.maxDetourTime * MinuteScale

\* C19: after a fulfilled start the session is active on the selected route
\* at step 0 and the upcoming memory is the first waypoint of the route (none
\* when the route has no waypoints).
C19_StartSetsUpcomingWaypoint ==
  [][\A routeId \in RouteIds(navigation) :
       ( /\ ~IsNull(SelectedRoute(navigation, routeId))
         /\ startNavigationThunk(routeId) )
       => LET route == Val(SelectedRoute(navigation, routeId))
          IN /\ navigation'.activeNavigation
             /\ navigation'.currentRoute = Some(route)
             /\ navigation'.currentStep = 0
             /\ navigation'.upcomingMemory =
                  IF Len(route.waypoints) = 0 THEN Null
                  ELSE Some(route.waypoints[1].memoryId)]_vars

\* C26: after an accepted location update in an active session the remaining
\* distance and duration are the sums over the steps from the session's
\* currentStep as it is after the update.
C26_RemainingFromCurrentStep ==
  [][\A location \in SliceLocations :
       ( /\ navigation.activeNavigation
         /\ ~IsNull(navigation.currentRoute)
         /\ updateCurrentLocationThunk(location) )
       => LET steps == Val(navigation.currentRoute).steps
              currentStep == navigation'.currentStep
          IN /\ navigation'.distanceToDestination
                  = Some(RemainingOf(steps, currentStep, "distance"))
             /\ navigation'.timeToDestination
                  = Some(RemainingOf(steps, currentStep, "duration"))]_vars

\* C33: in every state of the store, an active navigation has a current
\* route.
C33_ActiveHasRoute ==
  navigation.activeNavigation => ~IsNull(navigation.currentRoute)

\* C37: isLoading is true in every state of the store in which a route
\* computation is still in flight.
C37_LoadingWhilePending ==
  Len(pending) > 0 => navigation.isLoading

(***************************************************************************)
(* Properties of the planner's functions.                                  *)
(***************************************************************************)
\* what fn returned, when it is the function applied last
Returned(fn) == ~IsNull(planOutput) /\ Val(planOutput).fn = fn

\* a waypoint without the place it has in a visiting order
Unplaced(w) == [w EXCEPT !.waypointIndex = 0]

\* C11: the sequencer returns a list as long as its input in which every
\* waypoint of the input occurs exactly once.
C11_SequencerPermutes ==
  Returned("orderWaypointsByGreedyPath") =>
    LET input == PlanWaypoints(Val(planInput))
        output == Val(planOutput).result
    IN /\ Len(output) = Len(input)
       /\ \A i \in DOMAIN input :
            Cardinality({j \in DOMAIN output : Unplaced(output[j]) = Unplaced(input[i])}) = 1

\* C11 happens: three waypoints were sequenced into another order than given
C11_Witness ==
  /\ Returned("orderWaypointsByGreedyPath")
  /\ Len(Val(planOutput).result) = 3
  /\ \E j \in 1..3 :
       Val(planOutput).result[j].memory # PlanWaypoints(Val(planInput))[j].memory

\* the route the function applied last returned, for the functions that
\* return a route
ReturnedRoute ==
  Returned("calculateRoutes") \/ Returned("generateRouteWithWaypoints")

\* C12: in an assembled route the waypoint at place k of the visiting order
\* carries waypointIndex k, so the indices are 0..N-1, each once.
C12_SequenceIndexMatchesOrder ==
  ReturnedRoute =>
    LET waypoints == Val(planOutput).result.memoryWaypoints
    IN \A k \in DOMAIN waypoints : waypoints[k].waypointIndex = k - 1

\* the detour through every memory of the input exceeds the budget (so also
\* when the input holds no memory)
NoCandidateQualifies(in) ==
  \A i \in DOMAIN in.memories :
    DetourTimeOf(in.endpoints[1], in.endpoints[2], in.memories[i].location)
      > in.maxDetourMinutes * MinuteScale

\* C13: when no candidate qualifies under the detour budget, route
\* calculation returns the direct route: one leg from origin to destination,
\* no waypoints, and the distance from origin to destination as its distance.
C13_DirectRouteWithoutCandidates ==
  (Returned("calculateRoutes") /\ NoCandidateQualifies(Val(planInput))) =>
    LET in == Val(planInput)
        route == Val(planOutput).result
    IN /\ Len(route.legs) = 1
       /\ route.legs[1].startLocation = in.endpoints[1]
       /\ route.legs[1].endLocation = in.endpoints[2]
       /\ route.memoryWaypoints = <<>>
       /\ route.distance = calculateDistance(in.endpoints[1], in.endpoints[2])

\* C13 happens: a route was calculated from memories none of which qualifies
C13_Witness ==
  /\ Returned("calculateRoutes")
  /\ Len(Val(planInput).memories) > 0
  /\ NoCandidateQualifies(Val(planInput))

\* C14: the distance of an assembled route is the sum of the distances of
\* its legs, its duration the sum of their durations, which is the route's
\* distance at the speed of the requested mode.
C14_TotalsAreSumsOfLegs ==
  ReturnedRoute =>
    LET route == Val(planOutput).result
        legs == route.legs
        distanceTo[k \in 0..Len(legs)] ==
          IF k = 0 THEN 0 ELSE distanceTo[k - 1] + legs[k].distance
        durationTo[k \in 0..Len(legs)] ==
          IF k = 0 THEN Rat(0, 1) ELSE RatAdd(durationTo[k - 1], legs[k].duration)
    IN /\ route.distance = distanceTo[Len(legs)]
       /\ RatEq(route.duration, durationTo[Len(legs)])
       /\ RatEq(route.duration,
                DurationOf(route.distance,
                           getBaseSpeedForMode(Val(planInput).transportMode)))

\* C14 happens: a route of four legs was assembled
C14_Witness ==
  /\ ReturnedRoute
  /\ Len(Val(planOutput).result.legs) = 4


MemoriesOf(waypoints) == [i \in DOMAIN waypoints |-> waypoints[i].memory]

\* the input with its memories in the order perm
Reordered(in, perm) ==
  [in EXCEPT !.memories = [i \in DOMAIN perm |-> in.memories[perm[i]]]]

\* C22: the selector's output is in descending order of score, and it is the
\* same list of candidates for every ordering of the same input candidates.
C22_SortDeterministic ==
  Returned("sortWaypointsByPriority") =>
    LET in == Val(planInput)
        output == Val(planOutput).result
    IN /\ \A i \in DOMAIN output, j \in DOMAIN output :
            i < j => PriorityScore(output[i]) >= PriorityScore(output[j])
       /\ \A perm \in InjectiveSeqs(Len(in.memories), Len(in.memories)) :
            MemoriesOf(sortWaypointsByPriority(PlanWaypoints(Reordered(in, perm))))
              = MemoriesOf(output)

\* the candidates of the input within the detour budget
Qualifying(in) ==
  findPotentialMemoryWaypoints(in.endpoints[1], in.endpoints[2], in.memories,
                               in.maxDetourMinutes)

\* C23: the primary route has at most maxMemories waypoints; when more
\* candidates qualify it has exactly maxMemories, and no candidate left out
\* has a higher score than one taken.
C23_TruncatedToMaxMemories ==
  Returned("calculateRoutes") =>
    LET in == Val(planInput)
        qualifying == Qualifying(in)
        selected == Val(planOutput).result.memoryWaypoints
        taken == {selected[k].memory : k \in DOMAIN selected}
    IN /\ Len(selected) <= in.maxMemories
       /\ taken \subseteq {qualifying[i].memory : i \in DOMAIN qualifying}
       /\ Len(qualifying) > in.maxMemories =>
            /\ Len(selected) = in.maxMemories
            /\ \A k \in DOMAIN selected, i \in DOMAIN qualifying :
                 qualifying[i].memory \notin taken
                   => PriorityScore(selected[k]) >= PriorityScore(qualifying[i])

C23_Witness ==
  /\ Returned("calculateRoutes")
  /\ Len(Qualifying(Val(planInput))) = 3
  /\ Val(planInput).maxMemories = 1
  /\ Len(Val(planOutput).result.memoryWaypoints) = 1

\* C24: the detour time of every candidate is its detour distance over the
\* speed of the requested transport mode, in minutes:
\* detourTime = distanceFromRoute / speed(mode) / 60.
C24_DetourTimeUsesModeSpeed ==
  Returned("findPotentialMemoryWaypoints") =>
    LET baseSpeed == getBaseSpeedForMode(Val(planInput).transportMode)
        candidates == Val(planOutput).result
    IN \A i \in DOMAIN candidates :
         candidates[i].detourTime * baseSpeed * 60
           = candidates[i].distanceFromRoute * 10 * MinuteScale

\* the point the tour leaves from to reach position k of output
PreviousPoint(origin, output, k) ==
  IF k = 1 THEN origin ELSE output[k - 1].memory.location

\* the positions in input of the waypoints not placed before position k
NotPlacedBefore(input, output, k) ==
  {i \in DOMAIN input : \A j \in 1..(k - 1) : output[j].memory # input[i].memory}

C29_LegsFormChain ==
  ReturnedRoute =>
    LET in == Val(planInput)
        route == Val(planOutput).result
        legs == route.legs
        waypoints == route.memoryWaypoints
    IN /\ Len(legs) = Len(waypoints) + 1
       /\ legs[1].startLocation = in.endpoints[1]
       /\ legs[Len(legs)].endLocation = in.endpoints[2]
       /\ \A k \in 1..Len(waypoints) :
            /\ legs[k].endLocation = waypoints[k].memory.location
            /\ legs[k + 1].startLocation = legs[k].endLocation
       /\ \A k \in DOMAIN legs :
            LET steps == legs[k].steps
                distanceTo[n \in 0..Len(steps)] ==
                  IF n = 0 THEN 0 ELSE distanceTo[n - 1] + steps[n].distance
                durationTo[n \in 0..Len(steps)] ==
                  IF n = 0 THEN Rat(0, 1) ELSE RatAdd(durationTo[n - 1], steps[n].duration)
            IN /\ legs[k].distance = distanceTo[Len(steps)]
               /\ RatEq(legs[k].duration, durationTo[Len(steps)])

\* a route over three waypoints that are not in the order they were given in
C29_Witness ==
  /\ Returned("generateRouteWithWaypoints")
  /\ Len(Val(planOutput).result.memoryWaypoints) = 3
  /\ MemoriesOf(Val(planOutput).result.memoryWaypoints) # Val(planInput).memories

\* C30: the detour distance recorded for a candidate is never negative: a
\* difference distance(origin, candidate) + distance(candidate, destination)
\* - distance(origin, destination) that the rounding of the three distances
\* brings below 0 is recorded as 0.
C30_DetourDistanceNotNegative ==
  Returned("findPotentialMemoryWaypoints") =>
    LET candidates == Val(planOutput).result
    IN \A i \in DOMAIN candidates :
         /\ candidates[i].distanceFromRoute >= 0
         /\ candidates[i].detourTime >= 0

\* C31: generateAlternativeRoutes for two alternatives returns at most two
\* routes, and the waypoints of each are distinct candidates of the set it
\* was given, all within the detour budget.
C31_AlternativesAreSubsets ==
  Returned("generateAlternativeRoutes") =>
    LET in == Val(planInput)
        qualifying == Qualifying(in)
        alternatives == Val(planOutput).result
    IN /\ Len(alternatives) <= 2
       /\ \A a \in DOMAIN alternatives :
            LET waypoints == alternatives[a].memoryWaypoints
            IN /\ \A i \in DOMAIN waypoints, j \in DOMAIN waypoints :
                    i # j => waypoints[i].memory # waypoints[j].memory
               /\ \A i \in DOMAIN waypoints :
                    /\ \E q \in DOMAIN qualifying :
                         qualifying[q].memory = waypoints[i].memory
                    /\ WithinDetourBudget(waypoints[i], in.maxDetourMinutes)

\* two different proper subsets of three candidates were drawn
C31_Witness ==
  /\ Returned("generateAlternativeRoutes")
  /\ Len(Qualifying(Val(planInput))) = 3
  /\ Len(Val(planOutput).result) = 2
  /\ Len(Val(planOutput).result[1].memoryWaypoints) = 1
  /\ Len(Val(planOutput).result[2].memoryWaypoints) = 2

(***************************************************************************)
(* Properties of the memories slice.                                       *)
(***************************************************************************)
\* C38: in every state of the memories slice filteredMemories is
\* applyFilters(memories, activeFilters): it holds only memories of
\* memories and no id twice.
C38_FilteredIsFilterOfMemories ==
  LET filtered == memoriesState.filteredMemories
  IN /\ filtered = applyFilters(memoriesState.memories, memoriesState.activeFilters)
     /\ \A i \in DOMAIN filtered :
          \E j \in DOMAIN memoriesState.memories : filtered[i] = memoriesState.memories[j]
     /\ \A i, j \in DOMAIN filtered : filtered[i].id = filtered[j].id => i = j

=============================================================================
